---- MODULE Spec2Model ----
(***************************************************************************)
(* A model of the tokio Redis server of src/src/main.rs: the RESP frame    *)
(* decoder, the command handlers, the mutex-protected expiring cache and   *)
(* the per-connection session loop with its fixed read buffer.             *)
(*                                                                         *)
(* Text is modelled byte by byte: a byte is a one-character string, a      *)
(* string of the program is a sequence of bytes.  The literal text of an   *)
(* error message is kept as one piece of the sequence.                     *)
(***************************************************************************)
EXTENDS Integers, Sequences, FiniteSets, TLC

\* ------------------------------------------------------------------ bounds

\* The wall clock (milliseconds since the epoch) runs from 1 to MaxClock.
MaxClock == 2

\* The number of reads of a stream that return, all connections together.
MaxReads == 3

\* u128::MAX scaled down so that sums of a clock reading and a PX value can
\* be enumerated: the program's 2^128 - 1.
U128_MAX == 7

\* The connections the listener can accept.
Conns == {1, 2}

\* The number of worker threads of the tokio runtime (one per core of the host).
WorkerCounts == {1, 2}

\* ------------------------------------------------------------------ text

CR == "\r"
LF == "\n"
RESP_DELIMITER == <<CR, LF>>
CHUNK_SIZE == 1024

None == <<>>
Some(x) == <<x>>
IsSome(o) == o # <<>>
Unwrap(o) == o[1]

Digits == <<"0", "1", "2", "3", "4", "5", "6", "7", "8", "9">>
LowerCase == <<"a", "b", "c", "d", "e", "f", "g", "h", "i", "j", "k", "l", "m",
               "n", "o", "p", "q", "r", "s", "t", "u", "v", "w", "x", "y", "z">>
UpperCase == <<"A", "B", "C", "D", "E", "F", "G", "H", "I", "J", "K", "L", "M",
               "N", "O", "P", "Q", "R", "S", "T", "U", "V", "W", "X", "Y", "Z">>

IsDigit(b) == \E i \in 1..10 : Digits[i] = b
DigitValue(b) == (CHOOSE i \in 1..10 : Digits[i] = b) - 1

\* str::to_uppercase, on the ASCII letters
UpperByte(b) ==
    IF \E i \in 1..26 : LowerCase[i] = b
    THEN UpperCase[CHOOSE i \in 1..26 : LowerCase[i] = b]
    ELSE b
to_uppercase(s) == [i \in 1..Len(s) |-> UpperByte(s[i])]

\* the decimal text of a natural number (format!("{}", n))
RECURSIVE Decimal(_)
Decimal(n) ==
    IF n < 10 THEN <<Digits[n + 1]>>
    ELSE Decimal(n \div 10) \o <<Digits[(n % 10) + 1]>>

\* str::split_terminator("\r\n"): the pieces between delimiters; a final empty
\* piece (the text ended with the delimiter, or was empty) is dropped.
RECURSIVE SplitFrom(_, _, _, _)
SplitFrom(s, i, piece, acc) ==
    IF i > Len(s)
    THEN IF piece = <<>> THEN acc ELSE Append(acc, piece)
    ELSE IF i < Len(s) /\ s[i] = CR /\ s[i + 1] = LF
         THEN SplitFrom(s, i + 2, <<>>, Append(acc, piece))
         ELSE SplitFrom(s, i + 1, Append(piece, s[i]), acc)
split_terminator(s) == SplitFrom(s, 1, <<>>, <<>>)

\* The syntax str::parse accepts for an unsigned integer: an optional "+" and
\* at least one decimal digit.
UnsignedDigits(s) == IF s # <<>> /\ s[1] = "+" THEN Tail(s) ELSE s
IsUnsignedLiteral(s) ==
    LET d == UnsignedDigits(s)
    IN  d # <<>> /\ \A i \in 1..Len(d) : IsDigit(d[i])

\* The value of a digit string, or -1 once it exceeds max (checked_mul/checked_add).
RECURSIVE DigitsValue(_, _, _, _)
DigitsValue(d, i, acc, max) ==
    IF i > Len(d) THEN acc
    ELSE IF acc * 10 + DigitValue(d[i]) > max THEN -1
         ELSE DigitsValue(d, i + 1, acc * 10 + DigitValue(d[i]), max)

\* expiry_time.parse::<u128>().ok()
parse_u128(s) ==
    IF ~IsUnsignedLiteral(s) THEN None
    ELSE LET n == DigitsValue(UnsignedDigits(s), 1, 0, U128_MAX)
         IN  IF n < 0 THEN None ELSE Some(n)

\* ------------------------------------------------------------------ replies

PLUS == "+"
OK_RESP == <<PLUS, "O", "K">> \o RESP_DELIMITER
PONG_RESP == <<PLUS, "P", "O", "N", "G">> \o RESP_DELIMITER
NIL_RESP == <<"$", "-", "1">> \o RESP_DELIMITER

\* format!("+{}{}", text, RESP_DELIMITER)
SimpleString(text) == <<PLUS>> \o text \o RESP_DELIMITER

\* format!("{:?}", s) of a &str: quoted, with the escapes of the bytes in use
DebugByte(b) ==
    IF b = CR THEN <<"\\", "r">>
    ELSE IF b = LF THEN <<"\\", "n">>
    ELSE IF b = "\"" \/ b = "\\" THEN <<"\\", b>>
    ELSE <<b>>
RECURSIVE DebugStr(_, _)
DebugStr(s, i) ==
    IF i > Len(s) THEN <<"\"">>
    ELSE DebugByte(s[i]) \o DebugStr(s, i + 1)
\* format!("{:?}", v) of a Vec<&str>
RECURSIVE DebugVecFrom(_, _)
DebugVecFrom(v, i) ==
    IF i > Len(v) THEN <<"]">>
    ELSE (IF i > 1 THEN <<",", " ">> ELSE <<>>)
         \o <<"\"">> \o DebugStr(v[i], 1) \o DebugVecFrom(v, i + 1)
DebugVec(v) == <<"[">> \o DebugVecFrom(v, 1)

\* The error replies of the handlers; the fixed text of each is one piece.
WrongArgs(cmd_name, data) ==
    <<PLUS, "Wrong number of args for ", cmd_name, " command: ">>
    \o DebugVec(data) \o <<"!">> \o RESP_DELIMITER
NoPxValue == <<PLUS, "Couldn't find PX value in SET request!">> \o RESP_DELIMITER
UnsupportedOption(option) ==
    <<PLUS, "Unsupported option: ">> \o option \o <<" for SET request!">>
    \o RESP_DELIMITER

\* ------------------------------------------------------------------ decoder

PING == <<"P", "I", "N", "G">>
ECHO == <<"E", "C", "H", "O">>
GET == <<"G", "E", "T">>
SET == <<"S", "E", "T">>
PX == <<"P", "X">>

\* Command::from_str (strum, shouty_snake_case): None when no variant matches
Command_from_str(s) ==
    IF s = PING THEN Some("Ping")
    ELSE IF s = ECHO THEN Some("Echo")
    ELSE IF s = GET THEN Some("Get")
    ELSE IF s = SET THEN Some("Set")
    ELSE None

\* decode_request: Some(command), or None where the function panics
\* (an expect or unwrap fails, or first_elem[1..] is out of range).
decode_request(request) ==
    LET resp_array == split_terminator(request)
    IN  IF Len(resp_array) < 1 THEN None
        ELSE IF resp_array[1] = <<>> THEN None
        ELSE IF ~IsUnsignedLiteral(Tail(resp_array[1])) THEN None
        ELSE IF Len(resp_array) < 3 THEN None
        ELSE Command_from_str(to_uppercase(resp_array[3]))

\* ------------------------------------------------------------------ handlers
\* What a handler does up to its first use of the cache: it replies at once
\* (kind "reply"), or goes on to get_key (kind "get") or add_key (kind "set").

Reply(resp, is_err) ==
    [kind |-> "reply", resp |-> resp, err |-> is_err,
     key |-> <<>>, val |-> <<>>, expiry_ms |-> None]
CallGet(key) ==
    [kind |-> "get", resp |-> <<>>, err |-> FALSE,
     key |-> key, val |-> <<>>, expiry_ms |-> None]
CallAdd(key, val, expiry_ms) ==
    [kind |-> "set", resp |-> <<>>, err |-> FALSE,
     key |-> key, val |-> val, expiry_ms |-> expiry_ms]

NoCall ==
    [kind |-> "none", resp |-> <<>>, err |-> FALSE,
     key |-> <<>>, val |-> <<>>, expiry_ms |-> None]
handle_ping_cmd == Reply(PONG_RESP, FALSE)

handle_echo_cmd(echo_data) ==
    IF Len(echo_data) # 2 THEN Reply(WrongArgs("ECHO", echo_data), TRUE)
    ELSE Reply(SimpleString(echo_data[2]), FALSE)

handle_get_cmd(get_data) ==
    IF Len(get_data) < 2 THEN Reply(WrongArgs("GET", get_data), TRUE)
    ELSE CallGet(get_data[2])

\* The option of a SET: Some(expiry_time_arg), or None where the handler
\* replies with an error and returns.
set_option(set_data) ==
    IF Len(set_data) < 6 THEN [ok |-> TRUE, expiry_ms |-> None, resp |-> <<>>]
    ELSE IF to_uppercase(set_data[6]) = PX
         THEN IF Len(set_data) < 8
              THEN [ok |-> FALSE, expiry_ms |-> None, resp |-> NoPxValue]
              ELSE [ok |-> TRUE, expiry_ms |-> parse_u128(set_data[8]), resp |-> <<>>]
         ELSE [ok |-> FALSE, expiry_ms |-> None,
               resp |-> UnsupportedOption(to_uppercase(set_data[6]))]

handle_set_cmd(set_data) ==
    IF Len(set_data) < 4 THEN Reply(WrongArgs("SET", set_data), TRUE)
    ELSE LET opt == set_option(set_data)
         IN  IF opt.ok
             THEN CallAdd(set_data[2], set_data[4], opt.expiry_ms)
             ELSE Reply(opt.resp, TRUE)

handle_cmd(redis_cmd, request) ==
    LET resp_array == split_terminator(request)
        data == SubSeq(resp_array, 4, Len(resp_array))
    IN  CASE redis_cmd = "Ping" -> handle_ping_cmd
          [] redis_cmd = "Echo" -> handle_echo_cmd(data)
          [] redis_cmd = "Get" -> handle_get_cmd(data)
          [] redis_cmd = "Set" -> handle_set_cmd(data)

\* ------------------------------------------------------------------ clients
\* What a client puts on the wire for a command, as in the examples of
\* decode_request: "*<n>\r\n" and, for each word, "$<len>\r\n<word>\r\n".

RECURSIVE BulkStrings(_, _)
BulkStrings(words, i) ==
    IF i > Len(words) THEN <<>>
    ELSE <<"$">> \o Decimal(Len(words[i])) \o RESP_DELIMITER
         \o words[i] \o RESP_DELIMITER \o BulkStrings(words, i + 1)
RespArray(words) ==
    <<"*">> \o Decimal(Len(words)) \o RESP_DELIMITER \o BulkStrings(words, 1)

Key_a == <<"a">>
Key_b == <<"b">>
Val_x == <<"x">>
Val_y == <<"y">>

ReqPing == RespArray(<<PING>>)
ReqEcho == RespArray(<<<<"e", "c", "h", "o">>, <<"h">>>>)
ReqEchoNoArg == RespArray(<<ECHO>>)
ReqGet(k) == RespArray(<<GET, k>>)
ReqGetNoArg == RespArray(<<GET>>)
ReqSet(k, v) == RespArray(<<SET, k, v>>)
ReqSetPx(k, v, ms) == RespArray(<<SET, k, v, <<"p", "x">>, ms>>)
ReqSetPxNoValue == RespArray(<<SET, Key_a, Val_x, PX>>)
ReqSetPxBad == RespArray(<<SET, Key_a, Val_x, PX, <<"z">>>>)
ReqSetEx == RespArray(<<SET, Key_a, Val_x, <<"E", "X">>, <<"1">>>>)
ReqSetNoValue == RespArray(<<SET, Key_a>>)
ReqUnknown == RespArray(<<<<"D", "E", "L">>, Key_a>>)
ReqGetTwoArgs == RespArray(<<GET, Key_a, Key_b>>)

\* Frames that are no RESP array of bulk strings: a lone delimiter, a header
\* that is no number, a header alone, and PING with another first byte.
ReqEmpty == RESP_DELIMITER
ReqBadHeader == <<"*", "z">> \o SubSeq(ReqPing, 3, Len(ReqPing))
ReqNoCommand == <<"*", "1">> \o RESP_DELIMITER
ReqSigilX == <<"x">> \o Tail(ReqPing)
ReqSigilDollar == <<"$">> \o Tail(ReqPing)

\* The workloads: in one run the clients send requests of one of these sets.
MenuExpiry ==
    {ReqSetPx(Key_a, Val_x, <<"0">>), ReqSetPx(Key_a, Val_x, <<"5">>),
     ReqSet(Key_a, Val_y), ReqGet(Key_a)}
MenuKeys ==
    {ReqSet(Key_a, Val_x), ReqSet(Key_b, Val_y), ReqGet(Key_a), ReqGet(Key_b),
     ReqSetPx(Key_b, Val_x, <<"0">>)}
MenuEcho ==
    {ReqPing, ReqEcho, ReqEchoNoArg, ReqGetNoArg, ReqSetEx}
MenuOptions ==
    {ReqSetNoValue, ReqSetEx, ReqSetPxNoValue, ReqSetPxBad, ReqUnknown, ReqGet(Key_a)}
MenuOverflow ==
    {ReqSetPx(Key_a, Val_x, Decimal(U128_MAX)), ReqSet(Key_a, Val_y), ReqGet(Key_a)}
MenuDecode ==
    {ReqEmpty, ReqBadHeader, ReqNoCommand, ReqUnknown,
     ReqSet(Key_a, Val_x), ReqGet(Key_a)}
MenuSigil ==
    {ReqSigilX, ReqSigilDollar, ReqGetTwoArgs, ReqSetPx(Key_a, Val_x, <<"0">>)}
Menus ==
    {MenuExpiry, MenuKeys, MenuEcho, MenuOptions, MenuOverflow, MenuDecode,
     MenuSigil}

\* stream.read(&mut read_buffer): the bytes read replace the front of the
\* buffer, the rest of it stays as it was
ReadInto(buffer, bytes) ==
    LET n == IF Len(bytes) < CHUNK_SIZE THEN Len(bytes) ELSE CHUNK_SIZE
    IN  SubSeq(bytes, 1, n) \o SubSeq(buffer, n + 1, Len(buffer))

\* from_utf8(&read_buffer).split(NULL_BYTE).next(): the buffer up to its first
\* zero byte (read_buffer holds the buffer up to its zero padding)
RequestOf(buffer) == buffer

\* decode_request, then handle_cmd, on the request of one loop iteration
Dispatch(request) ==
    LET cmd == decode_request(request)
    IN  IF IsSome(cmd)
        THEN [panic |-> FALSE, h |-> handle_cmd(Unwrap(cmd), request)]
        ELSE [panic |-> TRUE, h |-> NoCall]

\* The buffers a task can hold after up to n reads of requests of a menu, and
\* Dispatch tabulated on their requests (it is a function of the request alone).
RECURSIVE BuffersAfter(_, _)
BuffersAfter(m, n) ==
    IF n = 0 THEN {<<>>}
    ELSE LET before == BuffersAfter(m, n - 1)
         IN  before \cup {ReadInto(buffer, bytes) : buffer \in before, bytes \in m}
Requests == {RequestOf(buffer) : buffer \in UNION {BuffersAfter(m, MaxReads) : m \in Menus}}
DispatchTable == [request \in Requests |-> Dispatch(request)]

\* ------------------------------------------------------------------ state

VARIABLES
    clock,        \* the last reading of SystemTime::now(), in milliseconds
    cache,        \* the HashMap behind the mutex: key -> entry
    lock,         \* the connection whose handler holds the MutexGuard, or 0
    poisoned,     \* the mutex is poisoned: a holder panicked
    build,        \* overflow checks of the build: "unknown" until an overflow shows it
    workers,      \* worker threads of the runtime
    menu,         \* the requests the clients of this run send
    reads,        \* reads that have returned so far
    pc,           \* where each connection's task is
    read_buffer,  \* each task's read_buffer, up to its zero padding
    call,         \* the handler's locals: what it asks of the cache
    lookup,       \* get_key's locals
    pending,      \* the replies the handler has still to write, in order
    written,      \* the replies written since the last read
    cur,          \* the bytes the client sent for the request being handled
    last          \* the last completed exchange of each connection

vars == <<clock, cache, lock, poisoned, build, workers, menu, reads, pc,
          read_buffer, call, lookup, pending, written, cur, last>>

NoLookup == [found |-> None, curr_time |-> None, ret |-> None]
NoExchange == [sent |-> <<>>, resps |-> <<>>]

\* A cache entry: the (String, Option<u128>) of the map, and, as history, the
\* connection that inserted it with the arguments and clock reading of add_key.
Entry(val, expiry_ts, c, expiry_ms, now) ==
    [val |-> val, expiry_ts |-> expiry_ts, by |-> c, px |-> expiry_ms, at |-> now]

\* HashMap::new()
EmptyMap == [k \in {} |-> None]

Init ==
    /\ clock = 1
    /\ cache = EmptyMap
    /\ lock = 0
    /\ poisoned = FALSE
    /\ build = "unknown"
    /\ workers \in WorkerCounts
    /\ menu \in Menus
    /\ reads = 0
    /\ pc = [c \in Conns |-> "unaccepted"]
    /\ read_buffer = [c \in Conns |-> <<>>]
    /\ call = [c \in Conns |-> NoCall]
    /\ lookup = [c \in Conns |-> NoLookup]
    /\ pending = [c \in Conns |-> <<>>]
    /\ written = [c \in Conns |-> <<>>]
    /\ cur = [c \in Conns |-> <<>>]
    /\ last = [c \in Conns |-> NoExchange]

\* ------------------------------------------------------------------ runtime

\* The tasks that occupy a worker thread: handle_connection never awaits, so a
\* task keeps its thread from its first poll until it returns or panics.
\* A runtime in which a panicked task would keep its worker thread.
RunningWithDead == {c \in Conns : pc[c] \notin {"unaccepted", "spawned", "closed"}}
Running == {c \in Conns : pc[c] \notin {"unaccepted", "spawned", "closed", "panicked"}}

\* run: the listener accepts a connection and spawns its task
Accept(c) ==
    /\ pc[c] = "unaccepted"
    /\ pc' = [pc EXCEPT ![c] = "spawned"]
    /\ UNCHANGED <<clock, cache, lock, poisoned, build, workers, menu, reads,
                   read_buffer, call, lookup, pending, written, cur, last>>

\* a free worker thread polls the spawned task
Start(c) ==
    /\ pc[c] = "spawned"
    /\ Cardinality(Running) < workers
    /\ pc' = [pc EXCEPT ![c] = "read"]
    /\ UNCHANGED <<clock, cache, lock, poisoned, build, workers, menu, reads,
                   read_buffer, call, lookup, pending, written, cur, last>>

\* A session loop that would end on a handler's error return.
AfterDispatchAbort(h) ==
    IF h.err THEN "closed"
    ELSE IF h.kind = "get" THEN "get_lock"
    ELSE IF h.kind = "set" THEN "add_lock"
    ELSE IF h.resp = <<>> THEN "read" ELSE "write"

\* the pc after a handler has returned or has got to its cache call
AfterDispatch(h) ==
    IF h.kind = "get" THEN "get_lock"
    ELSE IF h.kind = "set" THEN "add_lock"
    ELSE IF h.resp = <<>> THEN "read" ELSE "write"

\* handle_connection, one iteration with a non-empty read: read, decode,
\* dispatch, up to the handler's reply or its cache call
Read(c) ==
    /\ pc[c] = "read"
    /\ reads < MaxReads
    /\ \E bytes \in menu :
        LET buffer == ReadInto(read_buffer[c], bytes)
            d == DispatchTable[RequestOf(buffer)]
        IN  /\ read_buffer' = [read_buffer EXCEPT ![c] = buffer]
            /\ cur' = [cur EXCEPT ![c] = bytes]
            /\ written' = [written EXCEPT ![c] = <<>>]
            /\ call' = [call EXCEPT ![c] = d.h]
            /\ pending' = [pending EXCEPT ![c] =
                              IF d.h.resp = <<>> THEN <<>> ELSE <<d.h.resp>>]
            /\ pc' = [pc EXCEPT ![c] =
                         IF d.panic THEN "panicked" ELSE AfterDispatch(d.h)]
    /\ reads' = reads + 1
    /\ UNCHANGED <<clock, cache, lock, poisoned, build, workers, menu, lookup, last>>

\* handle_connection: the read returns 0 bytes (the peer closed), the loop ends
ReadEOF(c) ==
    /\ pc[c] = "read"
    /\ reads < MaxReads
    /\ reads' = reads + 1
    /\ pc' = [pc EXCEPT ![c] = "closed"]
    /\ UNCHANGED <<clock, cache, lock, poisoned, build, workers, menu,
                   read_buffer, call, lookup, pending, written, cur, last>>

\* ------------------------------------------------------------------ cache

\* A lock that would never make a caller wait.
MutexNeverBlocks == TRUE

\* cache.lock() returns once no other guard is alive
MutexFree == lock = 0

\* HashMap::insert and HashMap::remove
MapInsert(map, key, entry) ==
    [k \in DOMAIN map \cup {key} |-> IF k = key THEN entry ELSE map[k]]
\* A remove that would leave the map as it is.
MapRemoveNothing(map, key) == map
MapRemove(map, key) == [k \in DOMAIN map \ {key} |-> map[k]]

\* An expiry test that would take every entry with an expiry for expired.
IsExpiredAlways(curr_time, expiry) == curr_time >= 0

\* An expiry test that would come one millisecond late.
IsExpiredLate(curr_time, expiry) == curr_time > expiry + 1

\* get_key: curr_time > *expiry
IsExpired(curr_time, expiry) == curr_time > expiry

\* add_key: curr_time + expiry, and whether the u128 sum overflows
ExpirySum(curr_time, expiry) == curr_time + expiry
Overflows(curr_time, expiry) == ExpirySum(curr_time, expiry) > U128_MAX
WrappedSum(curr_time, expiry) == ExpirySum(curr_time, expiry) % (U128_MAX + 1)

\* the task panics: its stack unwinds, the stream is dropped
Panicked(c) ==
    /\ pc' = [pc EXCEPT ![c] = "panicked"]
    /\ call' = [call EXCEPT ![c] = NoCall]
    /\ lookup' = [lookup EXCEPT ![c] = NoLookup]

\* get_key: cache.lock().unwrap_or_else(panic)
GetLock(c) ==
    /\ pc[c] = "get_lock"
    /\ MutexFree
    /\ IF poisoned
       THEN Panicked(c) /\ UNCHANGED lock
       ELSE /\ lock' = c
            /\ pc' = [pc EXCEPT ![c] = "get_lookup"]
            /\ UNCHANGED <<call, lookup>>
    /\ UNCHANGED <<clock, cache, poisoned, build, workers, menu, reads,
                   read_buffer, pending, written, cur, last>>

\* SystemTime::now(): a reading not before the last one
Now == clock..MaxClock

\* get_key: c.get(&key), and for an entry found the clock reading and the
\* comparison with its expiry
GetLookup(c) ==
    /\ pc[c] = "get_lookup"
    /\ LET key == call[c].key
       IN  IF key \in DOMAIN cache
           THEN \E curr_time \in Now :
                LET expired == /\ IsSome(cache[key].expiry_ts)
                               /\ IsExpired(curr_time, Unwrap(cache[key].expiry_ts))
                IN  /\ clock' = curr_time
                    /\ lookup' = [lookup EXCEPT ![c] =
                           [found |-> Some(cache[key]),
                            curr_time |-> Some(curr_time),
                            ret |-> IF expired THEN None ELSE Some(cache[key].val)]]
                    /\ pc' = [pc EXCEPT ![c] =
                                 IF expired THEN "get_remove" ELSE "get_unlock"]
           ELSE /\ lookup' = [lookup EXCEPT ![c] = NoLookup]
                /\ pc' = [pc EXCEPT ![c] = "get_unlock"]
                /\ UNCHANGED clock
    /\ UNCHANGED <<cache, lock, poisoned, build, workers, menu, reads,
                   read_buffer, call, pending, written, cur, last>>

\* get_key: c.remove(&key)
GetRemove(c) ==
    /\ pc[c] = "get_remove"
    /\ cache' = MapRemove(cache, call[c].key)
    /\ pc' = [pc EXCEPT ![c] = "get_unlock"]
    /\ UNCHANGED <<clock, lock, poisoned, build, workers, menu, reads,
                   read_buffer, call, lookup, pending, written, cur, last>>

\* handle_get_cmd: the reply for what get_key returned
GetReply(ret) == IF IsSome(ret) THEN SimpleString(Unwrap(ret)) ELSE NIL_RESP

\* A get_key that would return with the guard still alive.
GetUnlockKeepsGuard(c) ==
    /\ pc[c] = "get_unlock"
    /\ pending' = [pending EXCEPT ![c] = <<GetReply(lookup[c].ret)>>]
    /\ pc' = [pc EXCEPT ![c] = "write"]
    /\ UNCHANGED <<clock, cache, lock, poisoned, build, workers, menu, reads,
                   read_buffer, call, lookup, written, cur, last>>

\* get_key returns, the guard is dropped; handle_get_cmd goes on to its write
GetUnlock(c) ==
    /\ pc[c] = "get_unlock"
    /\ lock' = 0
    /\ pending' = [pending EXCEPT ![c] = <<GetReply(lookup[c].ret)>>]
    /\ pc' = [pc EXCEPT ![c] = "write"]
    /\ UNCHANGED <<clock, cache, poisoned, build, workers, menu, reads,
                   read_buffer, call, lookup, written, cur, last>>

\* add_key: cache.lock().unwrap_or_else(panic)
AddLock(c) ==
    /\ pc[c] = "add_lock"
    /\ MutexFree
    /\ IF poisoned
       THEN Panicked(c) /\ UNCHANGED lock
       ELSE /\ lock' = c
            /\ pc' = [pc EXCEPT ![c] = "add_insert"]
            /\ UNCHANGED <<call, lookup>>
    /\ UNCHANGED <<clock, cache, poisoned, build, workers, menu, reads,
                   read_buffer, pending, written, cur, last>>

\* add_key: the entry to insert, where the sum (if any) does not panic
NewEntry(c, val, expiry_ms, curr_time) ==
    IF IsSome(expiry_ms)
    THEN Entry(val, Some(WrappedSum(curr_time, Unwrap(expiry_ms))), c,
               expiry_ms, Some(curr_time))
    ELSE Entry(val, None, c, None, None)

\* add_key: c.insert(key, (val, expiry)), after the clock reading and the sum
\* when there is an expiry; a sum that overflows wraps around in a build
\* without overflow checks
AddInsert(c) ==
    /\ pc[c] = "add_insert"
    /\ IF IsSome(call[c].expiry_ms)
       THEN \E curr_time \in Now :
            LET overflow == Overflows(curr_time, Unwrap(call[c].expiry_ms))
            IN  /\ overflow => build \in {"unknown", "release"}
                /\ build' = IF overflow THEN "release" ELSE build
                /\ clock' = curr_time
                /\ cache' = MapInsert(cache, call[c].key,
                       NewEntry(c, call[c].val, call[c].expiry_ms, curr_time))
       ELSE /\ cache' = MapInsert(cache, call[c].key,
                       NewEntry(c, call[c].val, None, clock))
            /\ UNCHANGED <<clock, build>>
    /\ pc' = [pc EXCEPT ![c] = "add_unlock"]
    /\ UNCHANGED <<lock, poisoned, workers, menu, reads,
                   read_buffer, call, lookup, pending, written, cur, last>>

\* add_key: in a build with overflow checks the overflowing sum panics; the
\* guard is dropped while unwinding, which poisons the mutex
AddOverflow(c) ==
    /\ pc[c] = "add_insert"
    /\ IsSome(call[c].expiry_ms)
    /\ build \in {"unknown", "debug"}
    /\ \E curr_time \in Now :
        /\ Overflows(curr_time, Unwrap(call[c].expiry_ms))
        /\ clock' = curr_time
    /\ build' = "debug"
    /\ lock' = 0
    /\ poisoned' = TRUE
    /\ Panicked(c)
    /\ UNCHANGED <<cache, workers, menu, reads,
                   read_buffer, pending, written, cur, last>>

\* add_key returns, the guard is dropped; handle_set_cmd goes on to its write
AddUnlock(c) ==
    /\ pc[c] = "add_unlock"
    /\ lock' = 0
    /\ pending' = [pending EXCEPT ![c] = <<OK_RESP>>]
    /\ pc' = [pc EXCEPT ![c] = "write"]
    /\ UNCHANGED <<clock, cache, poisoned, build, workers, menu, reads,
                   read_buffer, call, lookup, written, cur, last>>

\* stream.write(&resp): one reply goes out; after the handler's last write
\* handle_cmd returns and the loop goes back to its read
Write(c) ==
    /\ pc[c] = "write"
    /\ LET out == Append(written[c], Head(pending[c]))
           rest == Tail(pending[c])
       IN  /\ pending' = [pending EXCEPT ![c] = rest]
           /\ IF rest = <<>>
              THEN /\ pc' = [pc EXCEPT ![c] = "read"]
                   /\ last' = [last EXCEPT ![c] = [sent |-> cur[c], resps |-> out]]
                   /\ written' = [written EXCEPT ![c] = <<>>]
                   /\ cur' = [cur EXCEPT ![c] = <<>>]
                   /\ call' = [call EXCEPT ![c] = NoCall]
                   /\ lookup' = [lookup EXCEPT ![c] = NoLookup]
              ELSE /\ written' = [written EXCEPT ![c] = out]
                   /\ UNCHANGED <<pc, last, cur, call, lookup>>
    /\ UNCHANGED <<clock, cache, lock, poisoned, build, workers, menu, reads,
                   read_buffer>>

Next ==
    \E c \in Conns :
        \/ Accept(c)
        \/ Start(c)
        \/ Read(c)
        \/ ReadEOF(c)
        \/ GetLock(c)
        \/ GetLookup(c)
        \/ GetRemove(c)
        \/ GetUnlock(c)
        \/ AddLock(c)
        \/ AddInsert(c)
        \/ AddOverflow(c)
        \/ AddUnlock(c)
        \/ Write(c)

Spec == Init /\ [][Next]_vars

\* The steps the runtime and a task take on their own: the first poll of a
\* spawned task when a worker thread is free, and every step of a handler
\* after its read.  What a read returns, and when, is up to the client.
Server(c) ==
    \/ Start(c)
    \/ GetLock(c)
    \/ GetLookup(c)
    \/ GetRemove(c)
    \/ GetUnlock(c)
    \/ AddLock(c)
    \/ AddInsert(c)
    \/ AddOverflow(c)
    \/ AddUnlock(c)
    \/ Write(c)

\* Fair scheduling: no task waits for ever for a step it could take.
LiveSpec == Spec /\ \A c \in Conns : WF_vars(Server(c))

\* ------------------------------------------------------------------ claims

Keys == {Key_a, Key_b}
Vals == {Val_x, Val_y}

\* The steps of get_key and add_key between taking and dropping the guard.
InCritical(c) ==
    pc[c] \in {"get_lookup", "get_remove", "get_unlock", "add_insert", "add_unlock"}

\* C1: a SET k v (sent without option) answered +OK and followed at once on
\* the same connection by GET k, which finds the entry this connection
\* inserted, is answered +v.
C1_SetThenGet ==
    \A c \in Conns, k \in Keys, v \in Vals :
        ( /\ pc[c] = "write"
          /\ cur[c] = ReqGet(k)
          /\ last[c].sent = ReqSet(k, v)
          /\ last[c].resps = <<OK_RESP>>
          /\ IsSome(lookup[c].found)
          /\ Unwrap(lookup[c].found).by = c )
        => pending[c] = <<SimpleString(v)>>

\* C2 as stated: a GET that finds an entry stored with PX 0, at a clock
\* reading greater than or equal to the reading of the SET, returns None and
\* is answered $-1.
C2_Px0ExpiredAtOnce ==
    \A c \in Conns :
        LET l == lookup[c]
        IN  ( /\ IsSome(l.found)
              /\ Unwrap(l.found).px = Some(0)
              /\ Unwrap(l.curr_time) >= Unwrap(Unwrap(l.found).at) )
            => /\ l.ret = None
               /\ pc[c] = "write" => pending[c] = <<NIL_RESP>>

\* C2 as amended: a GET that finds an entry stored with PX 0, at a clock
\* reading strictly greater than the reading of the SET, returns None and is
\* answered $-1.
C2_Px0ExpiredLater ==
    \A c \in Conns :
        LET l == lookup[c]
        IN  ( /\ IsSome(l.found)
              /\ Unwrap(l.found).px = Some(0)
              /\ Unwrap(l.curr_time) > Unwrap(Unwrap(l.found).at) )
            => /\ l.ret = None
               /\ pc[c] = "write" => pending[c] = <<NIL_RESP>>

C2_Witness ==
    \E c \in Conns :
        /\ pc[c] = "write"
        /\ cur[c] = ReqGet(Key_a)
        /\ IsSome(lookup[c].found)
        /\ Unwrap(lookup[c].found).px = Some(0)
        /\ Unwrap(lookup[c].curr_time) > Unwrap(Unwrap(lookup[c].found).at)

\* C3: a SET sent with PX and no value, or with a value that is no unsigned
\* integer, is answered with an error and never reaches add_key.
C3_BadPxRejected ==
    \A c \in Conns :
        cur[c] \in {ReqSetPxNoValue, ReqSetPxBad}
        => /\ call[c].kind = "reply"
           /\ call[c].err
           /\ pending[c] # <<OK_RESP>>

\* C4: the entry a SET sent without option has inserted holds the value sent
\* and no expiry, whatever was stored or sent before.
C4_PlainSetNoExpiry ==
    \A c \in Conns, k \in Keys, v \in Vals :
        (pc[c] = "add_unlock" /\ cur[c] = ReqSet(k, v))
        => /\ k \in DOMAIN cache
           /\ cache[k].val = v
           /\ cache[k].expiry_ts = None

\* C5: ECHO h is answered +h, wherever in the connection it is sent.
C5_EchoAnywhere ==
    \A c \in Conns :
        (pc[c] = "write" /\ cur[c] = ReqEcho)
        => pending[c] = <<SimpleString(<<"h">>)>>

\* C6: a GET whose clock reading is strictly greater than the expiry of the
\* entry it finds returns None, has removed the entry when get_key is about
\* to return, and is answered $-1.
C6_ExpiredNeverReturned ==
    \A c \in Conns :
        LET l == lookup[c]
        IN  ( /\ IsSome(l.found)
              /\ IsSome(Unwrap(l.found).expiry_ts)
              /\ Unwrap(l.curr_time) > Unwrap(Unwrap(l.found).expiry_ts) )
            => /\ l.ret = None
               /\ pc[c] = "get_unlock" => call[c].key \notin DOMAIN cache
               /\ pc[c] = "write" => pending[c] = <<NIL_RESP>>

C6_Witness ==
    \E c \in Conns :
        /\ pc[c] = "get_unlock"
        /\ IsSome(lookup[c].found)
        /\ IsSome(Unwrap(lookup[c].found).expiry_ts)
        /\ Unwrap(lookup[c].curr_time) > Unwrap(Unwrap(lookup[c].found).expiry_ts)
        /\ call[c].key \notin DOMAIN cache

\* C7: when SET k1 v1 and SET k2 v2 (k1 # k2, sent without option) are in
\* progress at once on two connections, both have inserted and no request
\* since has written either key, the map holds k1 -> (v1, no expiry) and
\* k2 -> (v2, no expiry), and each is answered +OK.
C7_ConcurrentSets ==
    \A c1 \in Conns, c2 \in Conns, k1 \in Keys, k2 \in Keys,
       v1 \in Vals, v2 \in Vals :
        ( /\ c1 # c2
          /\ k1 # k2
          /\ cur[c1] = ReqSet(k1, v1)
          /\ cur[c2] = ReqSet(k2, v2)
          /\ pc[c1] \in {"add_unlock", "write"}
          /\ pc[c2] \in {"add_unlock", "write"}
          /\ {k1, k2} \subseteq DOMAIN cache
          /\ cache[k1].by = c1
          /\ cache[k2].by = c2 )
        => /\ cache[k1].val = v1 /\ cache[k1].expiry_ts = None
           /\ cache[k2].val = v2 /\ cache[k2].expiry_ts = None
           /\ pc[c1] = "write" => pending[c1] = <<OK_RESP>>
           /\ pc[c2] = "write" => pending[c2] = <<OK_RESP>>

C8_Witness ==
    \E c1 \in Conns, c2 \in Conns :
        /\ c1 # c2
        /\ lock = c1
        /\ InCritical(c1)
        /\ pc[c2] \in {"get_lock", "add_lock"}

C8_Step ==
    /\ \A c1 \in Conns, c2 \in Conns :
           (InCritical(c1)' /\ InCritical(c2)') => c1 = c2
    /\ \A c \in Conns : InCritical(c)' => lock' = c
    /\ cache' # cache
       => /\ lock \in Conns
          /\ InCritical(lock)
          /\ lock' = lock
          /\ pc'[lock] # pc[lock]
    /\ \A c \in Conns :
           (lookup'[c] # lookup[c] /\ IsSome(lookup'[c].found))
           => /\ lock = c
              /\ lock' = c
              /\ Unwrap(lookup'[c].found) = cache[call[c].key]

\* C8: at most one handler is between taking and dropping the cache lock,
\* that handler is the lock's holder, the map changes only in a step of the
\* holder, and a lookup reads a whole entry of the map while holding the lock.
C8_LockedAccess == [][C8_Step]_vars

ErrorTexts ==
    {"Wrong number of args for ", "Couldn't find PX value in SET request!",
     "Unsupported option: "}
IsErrorResp(resp) ==
    /\ Len(resp) >= 4
    /\ resp[1] = PLUS
    /\ resp[2] \in ErrorTexts
    /\ SubSeq(resp, Len(resp) - 1, Len(resp)) = RESP_DELIMITER

C9_Witness ==
    \E c \in Conns :
        /\ call[c].err
        /\ cur[c] \in {ReqEchoNoArg, ReqGetNoArg, ReqSetNoValue, ReqSetEx, ReqSetPxNoValue}
        /\ pc[c] = "write"
        /\ cache # EmptyMap

C9_Step ==
    \A c \in Conns :
        /\ call'[c].err
           => /\ pc'[c] = "write"
              /\ pending'[c] = <<call'[c].resp>>
              /\ IsErrorResp(call'[c].resp)
        /\ (call[c].err /\ pc'[c] # pc[c])
           => /\ pc'[c] = "read"
              /\ last'[c].resps = <<call[c].resp>>
        /\ ((call'[c].err /\ ~call[c].err) \/ (call[c].err /\ pc'[c] # pc[c]))
           => cache' = cache

\* C9: a handler that returns on an arity or option error has one error
\* reply to write, the connection's next step writes it and goes back to
\* reading, and neither step changes the cache.
C9_ErrorKeepsConnection == [][C9_Step]_vars

\* C10: an iteration of the session loop whose request has decoded never
\* ends, by going back to read or by the end of the task, without exactly one
\* reply written.
C10_ExactlyOneWrite ==
    \A c \in Conns :
        /\ (pc[c] = "read" /\ last[c].sent # <<>>) => Len(last[c].resps) = 1
        /\ ( /\ pc[c] = "panicked"
             /\ ~DispatchTable[RequestOf(read_buffer[c])].panic )
           => Len(written[c]) = 1

\* C11: a request sent with a command name other than PING, ECHO, GET and
\* SET is answered: its task has one simple string to write.
C11_UnknownCommandAnswered ==
    \A c \in Conns :
        cur[c] = ReqUnknown
        => /\ pc[c] = "write"
           /\ Len(pending[c]) = 1
           /\ Head(pending[c])[1] = PLUS

\* The request in the task's buffer made decode_request panic.
DecodePanicked(c) ==
    /\ pc[c] = "panicked"
    /\ DispatchTable[RequestOf(read_buffer[c])].panic

C12_Witness ==
    \E c1 \in Conns, c2 \in Conns :
        /\ c1 # c2
        /\ DecodePanicked(c1)
        /\ cur[c1] \in {ReqEmpty, ReqBadHeader, ReqNoCommand}
        /\ pc[c2] = "write"
        /\ cur[c2] = ReqGet(Key_a)
        /\ pending[c2] = <<SimpleString(Val_x)>>

C12_Step ==
    \A c1 \in Conns :
        /\ (pc[c1] = "read" /\ pc'[c1] = "panicked")
           => /\ cache' = cache
              /\ lock' = lock
              /\ poisoned' = poisoned
              /\ c1 \notin Running'
              /\ \A c2 \in Conns \ {c1} :
                     /\ pc'[c2] = pc[c2]
                     /\ read_buffer'[c2] = read_buffer[c2]
                     /\ call'[c2] = call[c2]
                     /\ lookup'[c2] = lookup[c2]
                     /\ pending'[c2] = pending[c2]
                     /\ written'[c2] = written[c2]
        /\ DecodePanicked(c1)'
           => /\ lock' # c1
              /\ \A c2 \in Conns \ {c1} :
                     pc'[c2] = "spawned" => Cardinality(Running') < workers'

\* C12: the step in which decode_request panics changes neither the cache
\* nor the lock nor its poison flag nor anything of another connection's
\* task, and a task dead of a decode error holds neither the lock nor a
\* worker thread that a spawned task waits for.
C12_DecodeErrorIsolated == [][C12_Step]_vars

C13_Witness ==
    \E c1 \in Conns, c2 \in Conns :
        /\ c1 # c2
        /\ pc[c1] = "write"
        /\ call[c1].kind \in {"get", "set"}
        /\ lock = c2

\* C13: a task that is at its read or at a write, or that has ended, does not
\* hold the cache lock: get_key and add_key have dropped the guard on every
\* way out, the panic in add_key included.
C13_NoLockAcrossIO ==
    \A c \in Conns :
        pc[c] \in {"unaccepted", "spawned", "read", "write", "closed", "panicked"}
        => lock # c

\* The key a request is sent with, if it is sent with one.
SentKey(bytes) ==
    IF \E k \in Keys : bytes = ReqGet(k)
    THEN Some(CHOOSE k \in Keys : bytes = ReqGet(k))
    ELSE IF \E k \in Keys, v \in Vals : bytes = ReqSet(k, v)
    THEN Some(CHOOSE k \in Keys : \E v \in Vals : bytes = ReqSet(k, v))
    ELSE IF \E k \in Keys, v \in Vals, ms \in {<<"0">>, <<"5">>} : bytes = ReqSetPx(k, v, ms)
    THEN Some(CHOOSE k \in Keys :
                  \E v \in Vals, ms \in {<<"0">>, <<"5">>} : bytes = ReqSetPx(k, v, ms))
    ELSE None

C14_Witness ==
    \E c1 \in Conns, c2 \in Conns :
        /\ c1 # c2
        /\ pc[c1] = "get_unlock"
        /\ cur[c1] = ReqGet(Key_b)
        /\ IsSome(lookup[c1].found)
        /\ lookup[c1].ret = None
        /\ Key_b \notin DOMAIN cache
        /\ Key_a \in DOMAIN cache
        /\ cache[Key_a].by = c2

C14_Step ==
    /\ \A k \in DOMAIN cache :
           /\ k \notin DOMAIN cache'
              => \E c \in Conns :
                     /\ pc[c] = "get_remove"
                     /\ call[c].kind = "get"
                     /\ call[c].key = k
                     /\ IsSome(cache[k].expiry_ts)
                     /\ Unwrap(lookup[c].curr_time) > Unwrap(cache[k].expiry_ts)
           /\ (k \in DOMAIN cache' /\ cache'[k] # cache[k])
              => \E c \in Conns :
                     /\ pc[c] = "add_insert"
                     /\ call[c].kind = "set"
                     /\ call[c].key = k
    /\ \A k \in DOMAIN cache' \ DOMAIN cache :
           \E c \in Conns :
               /\ pc[c] = "add_insert"
               /\ call[c].kind = "set"
               /\ call[c].key = k
    /\ \A c \in Conns :
           /\ (cur[c] \in {ReqPing, ReqEcho} /\ pc'[c] # pc[c]) => cache' = cache
           /\ (IsSome(SentKey(cur[c])) /\ call[c].kind \in {"get", "set"})
              => call[c].key = Unwrap(SentKey(cur[c]))
           /\ ( /\ pc[c] \in {"get_lock", "get_lookup", "get_unlock"}
                /\ pc'[c] # pc[c] )
              => cache' = cache
    /\ clock' # clock
       => \/ cache' = cache
          \/ \E c \in Conns : pc[c] = "add_insert"

\* C14: an entry leaves the map only in the remove of a GET for its key whose
\* clock reading is strictly greater than the entry's expiry; an entry is
\* written only by the insert of a SET for its key; the steps of PING and
\* ECHO, of a GET that finds no entry or one not expired, and the advance of
\* the clock leave the map as it is; a GET or SET sent with a key works on
\* that key.
C14_PassiveExpiry == [][C14_Step]_vars

\* C15: every entry stored with a PX value m has the expiry (clock reading of
\* add_key) + m, and no task has panicked while it held the cache lock.
C15_ExpirySumExact ==
    /\ \A k \in DOMAIN cache :
           IsSome(cache[k].px)
           => cache[k].expiry_ts = Some(Unwrap(cache[k].at) + Unwrap(cache[k].px))
    /\ ~poisoned

\* C16: a frame whose first byte is not the sigil * is a decode error: its
\* task ends in decode_request and no handler is called.
C16_SigilRequired ==
    \A c \in Conns :
        cur[c] \in {ReqSigilX, ReqSigilDollar}
        => /\ pc[c] = "panicked"
           /\ call[c] = NoCall

\* C17: a GET sent with no argument or with two is answered with an error
\* simple string and never gets to get_key.
C17_GetExactlyOneArg ==
    \A c \in Conns :
        cur[c] \in {ReqGetNoArg, ReqGetTwoArgs}
        => /\ call[c].kind = "reply"
           /\ call[c].err
           /\ pc[c] = "write"

\* C18: the request decoded in an iteration is the bytes of that iteration's
\* read, and is dispatched as those bytes alone would be.
C18_OnlyBytesRead ==
    \A c \in Conns :
        cur[c] # <<>>
        => /\ RequestOf(read_buffer[c]) = cur[c]
           /\ pc[c] \notin {"panicked", "closed"}
              => LET h == DispatchTable[cur[c]].h
                 IN  /\ call[c].kind = h.kind
                     /\ call[c].key = h.key
                     /\ call[c].val = h.val
                     /\ call[c].expiry_ms = h.expiry_ms

\* C19: under fair scheduling the task spawned for an accepted connection is
\* eventually polled, so that it gets to read and answer the request sent on
\* the connection, whatever the other connections do.
C19_NoStarvation ==
    \A c \in Conns : (pc[c] = "spawned") ~> (pc[c] # "spawned")

C20_Witness ==
    \E c1 \in Conns, c2 \in Conns :
        /\ c1 # c2
        /\ pc[c1] = "get_remove"
        /\ pc[c2] = "add_lock"
        /\ call[c2].key = call[c1].key

\* An entry with no expiry, or with an expiry that the clock has not passed.
Live(entry, now) ==
    IsSome(entry.expiry_ts) => Unwrap(entry.expiry_ts) >= now

C20_Step ==
    /\ \A c \in Conns :
           pc'[c] = "get_remove"
           => /\ call'[c].key \in DOMAIN cache'
              /\ cache'[call'[c].key] = Unwrap(lookup'[c].found)
              /\ ~Live(cache'[call'[c].key], Unwrap(lookup'[c].curr_time))
    /\ \A k \in DOMAIN cache :
           Live(cache[k], clock)
           => /\ k \in DOMAIN cache'
              /\ \/ cache'[k] = cache[k]
                 \/ \E c \in Conns :
                        /\ pc[c] = "add_insert"
                        /\ call[c].key = k
                        /\ cache'[k].val = call[c].val

\* C20: the entry a GET is about to remove is the expired entry it looked
\* up, whatever a SET on the same key does meanwhile on another connection;
\* an entry with no expiry or an expiry not yet passed stays in the map as
\* it is until a SET on its key replaces it.
C20_LiveEntryKept == [][C20_Step]_vars
====
